---- MODULE Spec2Model ----
(***************************************************************************)
(* Graph construction in tensorflow/examples/cc/gan/dcgan/nn_ops_rkz.cc:   *)
(* variables and assigns registered with the Scope, the two batch          *)
(* normalization layers, GlorotUniform, Dropout, and the Build methods of  *)
(* Generator and Discriminator.  Shapes are sequences of integers; real    *)
(* numbers are exact rationals <<num, den>> or fixed point integers.       *)
(***************************************************************************)
EXTENDS Integers, Sequences, FiniteSets, TLC

\* ------------------------------------------------------------------ bounds
MaxBatch == 2
MaxBuilds == 3
MaxRuns == 3
MaxRunBuilds == 2
MaxDim == 2
MaxRank == 5
UniformSteps == 4
FixedPoint == 100

\* ------------------------------------------------- constants of the headers
\* nn_ops_rkz.h and util.h set these; the shapes Build reshapes to fix UNITS
\* and IMAGE_SIZE, the other values are those of the DCGAN example
NOISE_DIM == 100
UNITS == 7 * 7 * 256
NUM_CHANNELS == 1
IMAGE_SIZE == 28
\* MOMENTUM is 0.8, kept as the rational 8/10
MOMENTUM == <<8, 10>>

\* ---------------------------------------------------------------- rationals
RECURSIVE GCD(_, _)
GCD(a, b) == IF b = 0 THEN a ELSE GCD(b, a % b)

Abs(a) == IF a < 0 THEN -a ELSE a

RNorm(r) ==
  LET g == GCD(Abs(r[1]), r[2])
  IN  IF r[1] = 0 THEN <<0, 1>> ELSE <<r[1] \div g, r[2] \div g>>

RSub(a, b) == RNorm(<<a[1] * b[2] - b[1] * a[2], a[2] * b[2]>>)
RMul(a, b) == RNorm(<<a[1] * b[1], a[2] * b[2]>>)
RAdd(a, b) == RNorm(<<a[1] * b[2] + b[1] * a[2], a[2] * b[2]>>)
\* a / b for b > 0
RDiv(a, b) == RNorm(<<a[1] * b[2], a[2] * b[1]>>)
RLeq(a, b) == a[1] * b[2] <= b[1] * a[2]
RFloor(a) == a[1] \div a[2]
ROne == <<1, 1>>
RZero == <<0, 1>>

\* ------------------------------------------------------------------- shapes
ShapeErr == <<-100>>
NoOutput == [valid |-> FALSE, shape |-> ShapeErr]

\* An op wrapper adds its node only while the scope is ok and shape inference
\* succeeds; otherwise it returns an empty Output.
Node(ok, shp) ==
  IF ok /\ shp # ShapeErr THEN [valid |-> TRUE, shape |-> shp] ELSE NoOutput

\* the value of F at v, v being computed once
Bind(v, F(_)) == CHOOSE r \in {F(x) : x \in {v}} : TRUE

RECURSIVE Prod(_)
Prod(s) == IF s = << >> THEN 1 ELSE Head(s) * Prod(Tail(s))

CeilDiv(a, b) == (a + b - 1) \div b

RandomShape(dims) ==
  IF \A i \in 1..Len(dims) : dims[i] >= 0 THEN dims ELSE ShapeErr

MatMulShape(a, b) ==
  IF a # ShapeErr /\ b # ShapeErr /\ Len(a) = 2 /\ Len(b) = 2 /\ a[2] = b[1]
  THEN <<a[1], b[2]>> ELSE ShapeErr

\* elementwise op of x with a per-feature vector broadcast on the last axis
BroadcastShape(x, v) ==
  IF x # ShapeErr /\ v # ShapeErr /\ Len(x) >= 1 /\ Len(v) = 1
     /\ v[1] = x[Len(x)]
  THEN x ELSE ShapeErr

SameShape(a, b) == IF a # ShapeErr /\ a = b THEN a ELSE ShapeErr

ReshapeShape(x, target) ==
  IF x # ShapeErr /\ (\A i \in 1..Len(target) : target[i] >= 0)
     /\ Prod(x) = Prod(target)
  THEN target ELSE ShapeErr

Conv2DShape(x, filter, stride) ==
  IF x # ShapeErr /\ Len(x) = 4 /\ Len(filter) = 4 /\ x[4] = filter[3]
  THEN <<x[1], CeilDiv(x[2], stride), CeilDiv(x[3], stride), filter[4]>>
  ELSE ShapeErr

Conv2DBackpropInputShape(sizes, filter, out_backprop, stride) ==
  IF out_backprop # ShapeErr /\ Len(sizes) = 4 /\ Len(filter) = 4
     /\ Len(out_backprop) = 4
     /\ (\A i \in 1..4 : sizes[i] >= 0)
     /\ filter[3] = sizes[4] /\ filter[4] = out_backprop[4]
     /\ out_backprop[1] = sizes[1]
     /\ out_backprop[2] = CeilDiv(sizes[2], stride)
     /\ out_backprop[3] = CeilDiv(sizes[3], stride)
  THEN sizes ELSE ShapeErr

FusedBatchNormShape(x, scale) ==
  IF x # ShapeErr /\ Len(x) = 4 /\ scale = <<x[4]>> THEN x ELSE ShapeErr

\* ReduceMean over axis 0 with keep_dims, then Squeeze of that axis
ReduceMeanShape(x) ==
  IF x # ShapeErr /\ Len(x) >= 1 THEN <<1>> \o Tail(x) ELSE ShapeErr

SqueezeShape(x) ==
  IF x # ShapeErr /\ Len(x) >= 1 /\ x[1] = 1 THEN Tail(x) ELSE ShapeErr


\* -------------------------------------------------------------------- state
VARIABLES
  status,       \* scope.status(): "OK" or "Error" (sticky)
  constructed,  \* objects whose constructor has returned
  variables,    \* sequence of the Variable nodes added: [id, shape]
  trainable,    \* sequence of ids passed to scope.AddTrainableVariable
  assign_ops,   \* sequence of records passed to scope.AddAssignOp
  update_ops,   \* sequence of records passed to scope.AddUpdateOp
  norm_nodes,   \* sequence of normalization calls made by the layers' Build
  built,        \* sequence of Build calls, in call order
  val,          \* run time value of each initialized variable (a rational)
  last_run,     \* what the last session run executed
  runs,         \* number of session runs so far
  glorot,       \* result of the last GlorotUniform call
  dropout       \* result of the last Dropout call

vars == <<status, constructed, variables, trainable, assign_ops, update_ops,
          norm_nodes, built, val, last_run, runs, glorot, dropout>>

graph_vars == <<status, constructed, variables, trainable, assign_ops,
                update_ops, norm_nodes, built>>

RefLayers == {"batchnorm_op"}
FusedLayers == {"batchnorm1_op", "batchnorm2_op"}
Layers == RefLayers \cup FusedLayers
GeneratorLayers == {"batchnorm_op", "batchnorm1_op", "batchnorm2_op"}

\* feature shape each layer is constructed with
LayerShape(l) ==
  CASE l = "batchnorm_op" -> <<UNITS>>
    [] l = "batchnorm1_op" -> <<128>>
    [] OTHER -> <<64>>

\* this->name of an object: the Output held in the field, empty when the
\* Variable op was not added
Field(vs, owner, name) ==
  IF \E i \in 1..Len(vs) : vs[i].id = <<owner, name>>
  THEN [valid |-> TRUE,
        shape |-> vs[CHOOSE i \in 1..Len(vs) : vs[i].id = <<owner, name>>].shape]
  ELSE NoOutput

Nothing == [vars |-> << >>, trainable |-> << >>, assigns |-> << >>]

Cat(a, b) ==
  [vars |-> a.vars \o b.vars, trainable |-> a.trainable \o b.trainable,
   assigns |-> a.assigns \o b.assigns]

\* Variable(scope, shape, dtype): one Variable node, no registration
VariableOp(ok, id, shape) ==
  [vars |-> IF ok THEN <<[id |-> id, shape |-> shape]>> ELSE << >>,
   trainable |-> << >>, assigns |-> << >>]

\* TFVariable::TFVariable
TFVariableMutantInverted(ok, id, shape, is_trainable) ==
  [vars |-> IF ok THEN <<[id |-> id, shape |-> shape]>> ELSE << >>,
   trainable |-> IF is_trainable THEN << >> ELSE <<id>>, assigns |-> << >>]

TFVariable(ok, id, shape, is_trainable) ==
  [vars |-> IF ok THEN <<[id |-> id, shape |-> shape]>> ELSE << >>,
   trainable |-> IF is_trainable THEN <<id>> ELSE << >>, assigns |-> << >>]

\* TFAssign::TFAssign: Assign(ref, value) and scope.AddAssignOp
TFAssign(ok, id, shape, value, value_shape) ==
  [vars |-> << >>, trainable |-> << >>,
   assigns |-> <<[ref |-> id, value |-> value,
                  emitted |-> Node(ok, SameShape(shape, value_shape)).valid]>>]

\* TFBatchNormalization::TFBatchNormalization
TFBatchNormalization(ok, l) ==
  LET shape == LayerShape(l)
  IN  Cat(VariableOp(ok, <<l, "moving_mean">>, shape),
      Cat(TFAssign(ok, <<l, "moving_mean">>, shape, "ZerosLike", shape),
      Cat(VariableOp(ok, <<l, "moving_variance">>, shape),
      Cat(TFAssign(ok, <<l, "moving_variance">>, shape, "ZerosLike", shape),
      Cat(TFVariable(ok, <<l, "gamma">>, shape, TRUE),
      Cat(TFAssign(ok, <<l, "gamma">>, shape, "OnesLike", shape),
      Cat(TFVariable(ok, <<l, "beta">>, shape, TRUE),
          TFAssign(ok, <<l, "beta">>, shape, "ZerosLike", shape))))))))

\* TFFusedBatchNorm::TFFusedBatchNorm
TFFusedBatchNorm(ok, l) ==
  LET shape == LayerShape(l)
  IN  Cat(VariableOp(ok, <<l, "moving_mean">>, shape),
      Cat(TFAssign(ok, <<l, "moving_mean">>, shape, "ZerosLike", shape),
      Cat(VariableOp(ok, <<l, "moving_variance">>, shape),
      Cat(TFAssign(ok, <<l, "moving_variance">>, shape, "ZerosLike", shape),
      Cat(TFVariable(ok, <<l, "gamma">>, shape, TRUE),
      Cat(TFAssign(ok, <<l, "gamma">>, shape, "OnesLike", shape),
      Cat(TFVariable(ok, <<l, "beta">>, shape, TRUE),
          TFAssign(ok, <<l, "beta">>, shape, "ZerosLike", shape))))))))

\* s1 of Discriminator: IMAGE_SIZE / 4, squared, times 128
FlattenedSizeMutantHalf == (IMAGE_SIZE \div 2) * (IMAGE_SIZE \div 2) * 128

FlattenedSize == (IMAGE_SIZE \div 4) * (IMAGE_SIZE \div 4) * 128

\* the variables Generator::Generator and Discriminator::Discriminator
\* create, in order, with the value each is assigned
GeneratorWeights ==
  << <<"w1", <<NOISE_DIM, UNITS>>, "ScaledRandomNormal">>,
     <<"filter", <<5, 5, 128, 256>>, "GlorotUniform">>,
     <<"filter2", <<5, 5, 64, 128>>, "GlorotUniform">>,
     <<"filter3", <<5, 5, NUM_CHANNELS, 64>>, "GlorotUniform">> >>

DiscriminatorWeights ==
  << <<"conv1_weights", <<5, 5, NUM_CHANNELS, 64>>, "GlorotUniform">>,
     <<"conv1_biases", <<64>>, "Zeros">>,
     <<"conv2_weights", <<5, 5, 64, 128>>, "GlorotUniform">>,
     <<"conv2_biases", <<128>>, "Zeros">>,
     <<"fc1_weights", <<FlattenedSize, 1>>, "GlorotUniform">>,
     <<"fc1_biases", <<1>>, "Zeros">> >>

RECURSIVE WeightsCtor(_, _, _)
WeightsCtor(ok, owner, ws) ==
  IF ws = << >> THEN Nothing
  ELSE LET w == Head(ws)
           id == <<owner, w[1]>>
       IN  Cat(TFVariable(ok, id, w[2], TRUE),
           Cat(TFAssign(ok, id, w[2], w[3], w[2]),
               WeightsCtor(ok, owner, Tail(ws))))

Register(c) ==
  /\ variables' = variables \o c.vars
  /\ trainable' = trainable \o c.trainable
  /\ assign_ops' = assign_ops \o c.assigns

\* Generator::Generator
GeneratorCtor ==
  /\ "generator" \notin constructed
  /\ constructed' = constructed \cup {"generator"}
  /\ LET ok == status = "OK"
     IN  Register(Cat(WeightsCtor(ok, "generator", GeneratorWeights),
                  Cat(TFBatchNormalization(ok, "batchnorm_op"),
                  Cat(TFFusedBatchNorm(ok, "batchnorm1_op"),
                      TFFusedBatchNorm(ok, "batchnorm2_op")))))
  /\ UNCHANGED <<status, update_ops, norm_nodes, built, val, last_run, runs,
                 glorot, dropout>>

\* Discriminator::Discriminator
DiscriminatorCtor ==
  /\ "discriminator" \notin constructed
  /\ constructed' = constructed \cup {"discriminator"}
  /\ Register(WeightsCtor(status = "OK", "discriminator",
                          DiscriminatorWeights))
  /\ UNCHANGED <<status, update_ops, norm_nodes, built, val, last_run, runs,
                 glorot, dropout>>

\* the layer object exists: its own constructor or Generator's has run
LayerConstructed(l) == l \in GeneratorLayers /\ "generator" \in constructed

\* ------------------------------------------------------ normalization Build
\* Moments(scope, x, {0}, keep_dims)
Moments(ok, x, keep_dims) ==
  LET m == Node(ok, ReduceMeanShape(x.shape))
      sd == Node(ok /\ m.valid, x.shape)
      v == Node(ok /\ sd.valid, ReduceMeanShape(sd.shape))
      mean == IF keep_dims THEN m ELSE Node(ok /\ v.valid, SqueezeShape(m.shape))
      variance == IF keep_dims THEN v
                  ELSE Node(ok /\ mean.valid, SqueezeShape(v.shape))
  IN  [mean |-> mean, variance |-> variance, ok |-> ok /\ variance.valid]

\* BatchNormalization::BatchNormalization
BatchNormalization(ok, x, mean, variance, offset, scale) ==
  LET inv == Node(ok, SameShape(variance.shape, scale.shape))
      tmp1 == Node(ok /\ inv.valid, BroadcastShape(x.shape, inv.shape))
      tmp2 == Node(ok /\ tmp1.valid, SameShape(mean.shape, inv.shape))
      sub == Node(ok /\ tmp2.valid, SameShape(offset.shape, tmp2.shape))
  IN  Node(ok /\ sub.valid, BroadcastShape(tmp1.shape, sub.shape))

\* decay = 1.0f - MOMENTUM
DecayMutantMomentum == MOMENTUM

Decay == RSub(ROne, MOMENTUM)

\* the "update ops" block of both Build methods: AssignSub(moving, (moving -
\* batch) * decay), passed to scope.AddUpdateOp whatever the scope's status
UpdateOp(ok, bid, l, stat, moving, batch, batch_src) ==
  LET delta == Node(ok, SameShape(moving.shape, batch.shape))
      assign_sub == Node(ok /\ delta.valid, moving.shape)
  IN  [build |-> bid, layer |-> l, op |-> "AssignSub", ref |-> <<l, stat>>,
       delta |-> [op |-> "Multiply",
                  x |-> [op |-> "Sub", x |-> <<l, stat>>, y |-> batch_src],
                  y |-> Decay],
       emitted |-> assign_sub.valid]

UpdateOpsMutantSameTarget(ok, bid, l, vs, mean, variance, src) ==
  LET u1 == UpdateOp(ok, bid, l, "moving_mean", Field(vs, l, "moving_mean"),
                     mean, <<src, "mean">>)
      u2 == UpdateOp(ok /\ u1.emitted, bid, l, "moving_mean",
                     Field(vs, l, "moving_mean"), variance,
                     <<src, "variance">>)
  IN  <<u1, u2>>

UpdateOps(ok, bid, l, vs, mean, variance, src) ==
  LET u1 == UpdateOp(ok, bid, l, "moving_mean", Field(vs, l, "moving_mean"),
                     mean, <<src, "mean">>)
      u2 == UpdateOp(ok /\ u1.emitted, bid, l, "moving_variance",
                     Field(vs, l, "moving_variance"), variance,
                     <<src, "variance">>)
  IN  <<u1, u2>>

\* TFBatchNormalization::Build(scope, x, {0}, variance_epsilon, training)
RefBuildMutantMoving(ok, bid, l, vs, x, training) ==
  Bind(Moments(ok, x, FALSE), LAMBDA mo :
  Bind(BatchNormalization(ok, x, Field(vs, l, "moving_mean"),
         Field(vs, l, "moving_variance"), Field(vs, l, "beta"),
         Field(vs, l, "gamma")), LAMBDA y :
    [y |-> y, ok |-> ok /\ y.valid,
     updates |-> IF training
                 THEN UpdateOps(mo.ok, bid, l, vs, mo.mean, mo.variance,
                                "Moments")
                 ELSE << >>,
     norm |-> [build |-> bid, layer |-> l, op |-> "BatchNormalization",
               training |-> training, mean |-> <<l, "moving_mean">>,
               variance |-> <<l, "moving_variance">>,
               is_training |-> training, emitted |-> y.valid]]))

RefBuild(ok, bid, l, vs, x, training) ==
  Bind(Moments(ok, x, FALSE), LAMBDA mo :
  Bind(UpdateOps(mo.ok, bid, l, vs, mo.mean, mo.variance, "Moments"),
       LAMBDA ups :
  Bind(IF training THEN mo.ok /\ ups[2].emitted ELSE ok, LAMBDA ok1 :
  Bind(IF training THEN mo.mean ELSE Field(vs, l, "moving_mean"),
       LAMBDA mean :
  Bind(IF training THEN mo.variance ELSE Field(vs, l, "moving_variance"),
       LAMBDA variance :
  Bind(BatchNormalization(ok1, x, mean, variance, Field(vs, l, "beta"),
                          Field(vs, l, "gamma")), LAMBDA y :
    [y |-> y, ok |-> ok1 /\ y.valid,
     updates |-> IF training THEN ups ELSE << >>,
     norm |-> [build |-> bid, layer |-> l, op |-> "BatchNormalization",
               training |-> training,
               mean |-> IF training THEN <<"Moments", "mean">>
                        ELSE <<l, "moving_mean">>,
               variance |-> IF training THEN <<"Moments", "variance">>
                            ELSE <<l, "moving_variance">>,
               is_training |-> training, emitted |-> y.valid]]))))))

\* TFFusedBatchNorm::Build(scope, x, variance_epsilon, training)
FusedBuild(ok, bid, l, vs, x, training) ==
  Bind(Field(vs, l, "gamma"), LAMBDA gamma :
  IF training
  THEN Bind(Node(ok /\ gamma.valid /\ Field(vs, l, "beta").valid,
                 FusedBatchNormShape(x.shape, gamma.shape)), LAMBDA fused :
       Bind(Node(ok /\ fused.valid, gamma.shape), LAMBDA batch :
       Bind(UpdateOps(ok /\ fused.valid, bid, l, vs, batch, batch,
                      "FusedBatchNorm"), LAMBDA ups :
         [y |-> fused, ok |-> ok /\ fused.valid /\ ups[2].emitted,
          updates |-> ups,
          norm |-> [build |-> bid, layer |-> l, op |-> "FusedBatchNorm",
                    training |-> training, mean |-> <<"Const", "empty">>,
                    variance |-> <<"Const", "empty">>,
                    is_training |-> TRUE, emitted |-> fused.valid]])))
  ELSE Bind(Node(ok /\ gamma.valid /\ Field(vs, l, "beta").valid
                   /\ Field(vs, l, "moving_mean").valid
                   /\ Field(vs, l, "moving_variance").valid,
                 FusedBatchNormShape(x.shape, gamma.shape)), LAMBDA fused :
         [y |-> fused, ok |-> ok /\ fused.valid, updates |-> << >>,
          norm |-> [build |-> bid, layer |-> l, op |-> "FusedBatchNorm",
                    training |-> training, mean |-> <<l, "moving_mean">>,
                    variance |-> <<l, "moving_variance">>,
                    is_training |-> FALSE, emitted |-> fused.valid]]))

\* ------------------------------------------------------------------ Dropout
\* conversion of the float argument to the parameter "const int rate"
FloatToInt(r) == r[1] \div r[2]

\* Dropout::Dropout(scope, x, const int rate)
Dropout(ok, x, rate_arg) ==
  LET rate == FloatToInt(rate_arg)
      keep_prob == <<1 - rate, 1>>
      random_value5 == Node(ok, x.shape)
      random_tensor == Node(ok /\ random_value5.valid, random_value5.shape)
      binary_tensor == Node(ok /\ random_tensor.valid, random_tensor.shape)
      div == Node(ok /\ binary_tensor.valid, x.shape)
  IN  [y |-> Node(ok /\ div.valid, SameShape(div.shape, binary_tensor.shape)),
       rate_arg |-> rate_arg, add_const |-> keep_prob, divisor |-> keep_prob]

\* the literal 0.3f Discriminator::Build passes to Dropout
DropoutRate == <<3, 10>>

\* ------------------------------------------------------------ network Build
\* Generator::Build(scope, batch_size, training)
GeneratorBuild(ok, bid, vs, batch_size, training) ==
  Bind(Node(ok, RandomShape(<<batch_size, NOISE_DIM>>)), LAMBDA noise :
  Bind(Node(ok /\ noise.valid,
            MatMulShape(noise.shape, Field(vs, "generator", "w1").shape)),
       LAMBDA dense :
  Bind(RefBuild(ok /\ dense.valid, bid, "batchnorm_op", vs, dense, training),
       LAMBDA batchnorm :
  Bind(Node(batchnorm.ok, batchnorm.y.shape), LAMBDA leakyrelu :
  Bind(Node(batchnorm.ok /\ leakyrelu.valid,
            ReshapeShape(leakyrelu.shape, <<batch_size, 7, 7, 256>>)),
       LAMBDA reshape1 :
  Bind(Node(batchnorm.ok /\ reshape1.valid,
            Conv2DBackpropInputShape(<<batch_size, 7, 7, 128>>,
              Field(vs, "generator", "filter").shape, reshape1.shape, 1)),
       LAMBDA deconv1 :
  Bind(FusedBuild(batchnorm.ok /\ deconv1.valid, bid, "batchnorm1_op", vs,
                  deconv1, training), LAMBDA batchnorm1 :
  Bind(Node(batchnorm1.ok, batchnorm1.y.shape), LAMBDA leakyrelu1 :
  Bind(Node(batchnorm1.ok /\ leakyrelu1.valid,
            Conv2DBackpropInputShape(<<batch_size, 14, 14, 64>>,
              Field(vs, "generator", "filter2").shape, leakyrelu1.shape, 2)),
       LAMBDA deconv2 :
  Bind(FusedBuild(batchnorm1.ok /\ deconv2.valid, bid, "batchnorm2_op", vs,
                  deconv2, training), LAMBDA batchnorm2 :
  Bind(Node(batchnorm2.ok, batchnorm2.y.shape), LAMBDA leakyrelu2 :
  Bind(Node(batchnorm2.ok /\ leakyrelu2.valid,
            Conv2DBackpropInputShape(<<batch_size, 28, 28, NUM_CHANNELS>>,
              Field(vs, "generator", "filter3").shape, leakyrelu2.shape, 2)),
       LAMBDA output :
    [out |-> output, ok |-> batchnorm2.ok /\ output.valid,
     updates |-> batchnorm.updates \o batchnorm1.updates
                   \o batchnorm2.updates,
     norms |-> <<batchnorm.norm, batchnorm1.norm, batchnorm2.norm>>,
     stages |-> <<dense.shape, reshape1.shape, deconv1.shape, deconv2.shape,
                  output.shape>>,
     dropouts |-> << >>]))))))))))))

\* Discriminator::Build(scope, inputs, batch_size)
DiscriminatorBuild(ok, vs, inputs, batch_size) ==
  Bind(Node(ok /\ inputs.valid,
            Conv2DShape(inputs.shape,
                        Field(vs, "discriminator", "conv1_weights").shape, 2)),
       LAMBDA conv2d_1 :
  Bind(Node(ok /\ conv2d_1.valid,
            BroadcastShape(conv2d_1.shape,
                           Field(vs, "discriminator", "conv1_biases").shape)),
       LAMBDA bias_1 :
  Bind(Node(ok /\ bias_1.valid, bias_1.shape), LAMBDA relu_1 :
  Bind(Dropout(ok /\ relu_1.valid, relu_1, DropoutRate), LAMBDA dropout_1 :
  Bind(Node(ok /\ dropout_1.y.valid,
            Conv2DShape(dropout_1.y.shape,
                        Field(vs, "discriminator", "conv2_weights").shape, 2)),
       LAMBDA conv2d_2 :
  Bind(Node(ok /\ conv2d_2.valid,
            BroadcastShape(conv2d_2.shape,
                           Field(vs, "discriminator", "conv2_biases").shape)),
       LAMBDA bias_2 :
  Bind(Node(ok /\ bias_2.valid, bias_2.shape), LAMBDA relu_2 :
  Bind(Dropout(ok /\ relu_2.valid, relu_2, DropoutRate), LAMBDA dropout_2 :
  Bind(Node(ok /\ dropout_2.y.valid,
            ReshapeShape(dropout_2.y.shape, <<batch_size, FlattenedSize>>)),
       LAMBDA reshape1 :
  Bind(Node(ok /\ reshape1.valid,
            MatMulShape(reshape1.shape,
                        Field(vs, "discriminator", "fc1_weights").shape)),
       LAMBDA matmul :
  Bind(Node(ok /\ matmul.valid,
            BroadcastShape(matmul.shape,
                           Field(vs, "discriminator", "fc1_biases").shape)),
       LAMBDA output :
    [out |-> output, ok |-> ok /\ output.valid, updates |-> << >>,
     norms |-> << >>,
     stages |-> <<conv2d_1.shape, conv2d_2.shape, reshape1.shape,
                  output.shape>>,
     dropouts |-> <<[rate_arg |-> dropout_1.rate_arg,
                     add_const |-> dropout_1.add_const,
                     divisor |-> dropout_1.divisor],
                    [rate_arg |-> dropout_2.rate_arg,
                     add_const |-> dropout_2.add_const,
                     divisor |-> dropout_2.divisor]>>])))))))))))

\* a Build call returns its Output; what the call did is appended to the
\* scope's registries and the scope's status.  Build makes no Variable,
\* TFVariable or TFAssign call.
RecordMutantRecreate(net, training, batch_size, input, r) ==
  /\ built' = Append(built,
       [net |-> net, training |-> training, batch_size |-> batch_size,
        input |-> input, out |-> r.out, stages |-> r.stages,
        dropouts |-> r.dropouts,
        ok_before |-> status = "OK", ok_after |-> r.ok,
        registered |-> Len(r.updates)])
  /\ update_ops' = update_ops \o r.updates
  /\ norm_nodes' = norm_nodes \o r.norms
  /\ status' = IF r.ok THEN "OK" ELSE "Error"
  /\ variables' = variables
                    \o TFVariable(status = "OK", <<net, "w1">>, <<1>>, TRUE).vars
  /\ trainable' = trainable \o <<<<net, "w1">>>>
  /\ assign_ops' = assign_ops
                     \o TFAssign(status = "OK", <<net, "w1">>, <<1>>, "Zeros",
                                 <<1>>).assigns
  /\ UNCHANGED <<constructed, val, last_run, runs, glorot, dropout>>

Record(net, training, batch_size, input, r) ==
  /\ built' = Append(built,
       [net |-> net, training |-> training, batch_size |-> batch_size,
        input |-> input, out |-> r.out, stages |-> r.stages,
        dropouts |-> r.dropouts,
        ok_before |-> status = "OK", ok_after |-> r.ok,
        registered |-> Len(r.updates)])
  /\ update_ops' = update_ops \o r.updates
  /\ norm_nodes' = norm_nodes \o r.norms
  /\ status' = IF r.ok THEN "OK" ELSE "Error"
  /\ UNCHANGED <<constructed, variables, trainable, assign_ops, val, last_run,
                 runs, glorot, dropout>>

\* batch sizes a caller passes; a dimension below -1 is one shape inference
\* rejects
BatchSizes == {-2} \cup (1..MaxBatch)

NoInput == NoOutput

GeneratorBuildCall(limit, batch_size, training) ==
  /\ "generator" \in constructed
  /\ Len(built) < limit
  /\ \E r \in {GeneratorBuild(status = "OK", Len(built) + 1, variables,
                               batch_size, training)} :
       Record("generator", training, batch_size, NoInput, r)

\* images a caller can pass: a generator output or a fed image batch
Images ==
  {built[i].out : i \in {j \in 1..Len(built) : built[j].net = "generator"}}
  \cup {[valid |-> TRUE, shape |-> <<b, IMAGE_SIZE, IMAGE_SIZE, NUM_CHANNELS>>]
          : b \in 1..MaxBatch}

DiscriminatorBuildCall(limit, inputs, batch_size) ==
  /\ "discriminator" \in constructed
  /\ Len(built) < limit
  /\ \E r \in {DiscriminatorBuild(status = "OK", variables, inputs,
                                   batch_size)} :
       Record("discriminator", FALSE, batch_size, inputs, r)

\* ------------------------------------------------------------ GlorotUniform
\* floor of the square root of n, by bisection between lo and hi
RECURSIVE ISqrtBetween(_, _, _)
ISqrtBetween(n, lo, hi) ==
  IF lo = hi THEN lo
  ELSE LET mid == (lo + hi + 1) \div 2
       IN  IF mid * mid <= n THEN ISqrtBetween(n, mid, hi)
           ELSE ISqrtBetween(n, lo, mid - 1)

ISqrt(n) == ISqrtBetween(n, 0, n)

\* what a read of shape_vec[i] past the end of the vector can yield
Garbage == {-1, 0, 3}

\* GlorotUniform::GlorotUniform(scope, shape) with the uniform draw
\* k / UniformSteps; g0 and g1 stand for shape_vec[0] and shape_vec[1] when
\* the vector is shorter than that
GlorotUniformMutantFan(shape, k, g0, g1) ==
  LET s0 == IF Len(shape) >= 1 THEN shape[1] ELSE g0
      s1 == IF Len(shape) >= 2 THEN shape[2] ELSE g1
      fan_in == IF Len(shape) = 4 THEN s0 * s1 * shape[3] ELSE s0
      fan_out == IF Len(shape) = 4 THEN s0 * s1 * shape[3] ELSE s1
      half == <<fan_in + fan_out, 2>>
      scale == IF RLeq(ROne, half) THEN RDiv(ROne, half) ELSE ROne
      limit == ISqrt((3 * scale[1] * FixedPoint * FixedPoint) \div scale[2])
  IN  [shape |-> shape, outcome |-> "node", error |-> "none",
       fan_in |-> fan_in, fan_out |-> fan_out, scale |-> scale,
       limit |-> limit, minval |-> -limit, maxval |-> limit, uniform |-> k,
       value |-> (k * (limit - (-limit))) \div UniformSteps + (-limit)]

GlorotUniform(shape, k, g0, g1) ==
  LET s0 == IF Len(shape) >= 1 THEN shape[1] ELSE g0
      s1 == IF Len(shape) >= 2 THEN shape[2] ELSE g1
      fan_in == IF Len(shape) = 4 THEN s0 * s1 * shape[3] ELSE s0
      fan_out == IF Len(shape) = 4 THEN s0 * s1 * shape[4] ELSE s1
      half == <<fan_in + fan_out, 2>>
      scale == IF RLeq(ROne, half) THEN RDiv(ROne, half) ELSE ROne
      limit == ISqrt((3 * scale[1] * FixedPoint * FixedPoint) \div scale[2])
      maxval == limit
      minval == -limit
  IN  [shape |-> shape, outcome |-> "node", error |-> "none",
       fan_in |-> fan_in, fan_out |-> fan_out, scale |-> scale,
       limit |-> limit, minval |-> minval, maxval |-> maxval, uniform |-> k,
       value |-> (k * (maxval - minval)) \div UniformSteps + minval]

RECURSIVE ShapesOfRank(_)
ShapesOfRank(n) ==
  IF n = 0 THEN {<< >>}
  ELSE {<<d>> \o s : d \in 1..MaxDim, s \in ShapesOfRank(n - 1)}

Shapes == UNION {ShapesOfRank(n) : n \in 0..MaxRank}

NoResult == [outcome |-> "none"]

\* a call of GlorotUniform; reading past the end of shape_vec is undefined:
\* the call reads some value or the process dies
GlorotCall(shape, k) ==
  /\ \/ \E g0, g1 \in Garbage :
          /\ Len(shape) >= 2 => (g0 = 0 /\ g1 = 0)
          /\ Len(shape) = 1 => g0 = 0
          /\ glorot' = GlorotUniform(shape, k, g0, g1)
     \/ /\ Len(shape) < 2
        /\ glorot' = [shape |-> shape, outcome |-> "crash", error |-> "none"]
  /\ UNCHANGED <<graph_vars, val, last_run, runs, dropout>>

\* -------------------------------------------------------- Dropout, executed
\* the value of Dropout's output for an input element x and a uniform draw u
DropoutRun(d, x, u) ==
  LET random_tensor == RAdd(u, d.add_const)
      binary_tensor == <<RFloor(random_tensor), 1>>
  IN  [outcome |-> "node", rate_arg |-> d.rate_arg,
       add_const |-> d.add_const, divisor |-> d.divisor, x |-> x, u |-> u,
       mask |-> binary_tensor,
       y |-> RMul(RDiv(x, d.divisor), binary_tensor)]

Rates == {RNorm(<<r, 10>>) : r \in 0..9}
Elements == {<<-3, 1>>, <<1, 2>>, <<7, 1>>}
Uniforms == {<<k, UniformSteps>> : k \in 0..(UniformSteps - 1)}

DropoutCall(rate_arg, x, u) ==
  /\ dropout' = DropoutRun(Dropout(TRUE, [valid |-> TRUE, shape |-> <<1>>],
                                   rate_arg), x, RNorm(u))
  /\ UNCHANGED <<graph_vars, val, last_run, runs, glorot>>


\* ------------------------------------------------------------- session runs
InitValue(kind) == IF kind = "OnesLike" THEN ROne ELSE RZero

LayerAssigns ==
  {i \in 1..Len(assign_ops) :
     assign_ops[i].emitted /\ assign_ops[i].ref[1] \in Layers}

\* running the registered assign ops gives the layers' variables their
\* initial values
RunInit ==
  /\ LayerAssigns # {}
  /\ val' = [id \in {assign_ops[i].ref : i \in LayerAssigns} |->
               InitValue(assign_ops[CHOOSE i \in LayerAssigns :
                                      assign_ops[i].ref = id].value)]
  /\ last_run' = [kind |-> "init"]
  /\ UNCHANGED <<graph_vars, runs, glorot, dropout>>

\* batch statistics a run can meet
BatchStats == {[mean |-> <<1, 1>>, variance |-> <<3, 2>>],
               [mean |-> <<-3, 2>>, variance |-> <<1, 4>>]}

BatchValue(src, batch_mean, batch_variance) ==
  IF src[2] = "mean" THEN batch_mean ELSE batch_variance

\* AssignSub(ref, Multiply(Sub(ref, batch), decay)), executed
AssignSubRun(v, u, batch_mean, batch_variance) ==
  RSub(v[u.ref],
       RMul(RSub(v[u.delta.x.x],
                 BatchValue(u.delta.x.y, batch_mean, batch_variance)),
            u.delta.y))

\* the statistic a normalization node normalizes with
StatUsed(n, src, v, batch) ==
  IF n.op = "FusedBatchNorm"
  THEN IF n.is_training THEN batch ELSE v[src]
  ELSE IF src[1] = "Moments" THEN batch ELSE v[src]

LayerVars(l) ==
  {<<l, f>> : f \in {"moving_mean", "moving_variance", "gamma", "beta"}}

\* one session run of normalization node i together with the update ops its
\* Build call registered, the batch having the given statistics
Run(i, batch_mean, batch_variance) ==
  /\ runs < MaxRuns
  /\ i \in 1..Len(norm_nodes)
  /\ LET n == norm_nodes[i]
         ups == {j \in 1..Len(update_ops) :
                   /\ update_ops[j].build = n.build
                   /\ update_ops[j].layer = n.layer
                   /\ update_ops[j].emitted}
         after == [id \in DOMAIN val |->
                     IF \E j \in ups : update_ops[j].ref = id
                     THEN AssignSubRun(val,
                            update_ops[CHOOSE j \in ups :
                                         update_ops[j].ref = id],
                            batch_mean, batch_variance)
                     ELSE val[id]]
     IN  /\ n.emitted
         /\ LayerVars(n.layer) \subseteq DOMAIN val
         /\ val' = after
         /\ last_run' =
              [kind |-> "run", node |-> i, layer |-> n.layer,
               training |-> n.training, executed |-> Cardinality(ups),
               batch_mean |-> batch_mean, batch_variance |-> batch_variance,
               before |-> val, after |-> after,
               mean_used |-> StatUsed(n, n.mean, val, batch_mean),
               variance_used |-> StatUsed(n, n.variance, val, batch_variance)]
  /\ runs' = runs + 1
  /\ UNCHANGED <<graph_vars, glorot, dropout>>

\* ------------------------------------------------------------ specification
Init ==
  /\ status = "OK"
  /\ constructed = {}
  /\ variables = << >>
  /\ trainable = << >>
  /\ assign_ops = << >>
  /\ update_ops = << >>
  /\ norm_nodes = << >>
  /\ built = << >>
  /\ val = << >>
  /\ last_run = [kind |-> "none"]
  /\ runs = 0
  /\ glorot = NoResult
  /\ dropout = NoResult

\* construction of the graph
Next ==
  \/ GeneratorCtor
  \/ DiscriminatorCtor
  \/ \E b \in BatchSizes, t \in BOOLEAN : GeneratorBuildCall(MaxBuilds, b, t)
  \/ \E x \in Images, b \in 1..MaxBatch :
       DiscriminatorBuildCall(MaxBuilds, x, b)

Spec == Init /\ [][Next]_vars

\* construction of a generator's graph and session runs of it
NextRun ==
  \/ GeneratorCtor
  \/ \E t \in BOOLEAN : GeneratorBuildCall(MaxRunBuilds, 1, t)
  \/ RunInit
  \/ \E i \in 1..Len(norm_nodes), b \in BatchStats :
       Run(i, b.mean, b.variance)

SpecRun == Init /\ [][NextRun]_vars

\* GlorotUniform applied to shapes of every rank up to MaxRank
NextGlorot == \E s \in Shapes, k \in 0..(UniformSteps - 1) : GlorotCall(s, k)

SpecGlorot == Init /\ [][NextGlorot]_vars

\* Dropout applied to every rate in tenths below 1, and the Dropout calls of
\* Discriminator::Build
NextDropout ==
  \/ \E r \in Rates, x \in Elements, u \in Uniforms : DropoutCall(r, x, u)
  \/ DiscriminatorCtor
  \/ \E x \in Images, b \in 1..MaxBatch : DiscriminatorBuildCall(1, x, b)

SpecDropout == Init /\ [][NextDropout]_vars


\* =================================================================== claims
Range(f) == {f[i] : i \in DOMAIN f}

TrainingBuilds ==
  {i \in 1..Len(built) : built[i].net = "generator" /\ built[i].training}

UpdatesOf(i, l) ==
  {j \in 1..Len(update_ops) :
     update_ops[j].build = i /\ update_ops[j].layer = l}

\* C1: every Build with training = TRUE registers exactly two update ops for
\* each normalization layer it builds, one AssignSub on the layer's
\* moving_mean and one on its moving_variance; a Build with training = FALSE
\* registers none; so the update ops registered for a layer number twice the
\* training Build calls.
C1_UpdateOpsPerTrainingBuild ==
  \A l \in Layers :
    /\ Cardinality({j \in 1..Len(update_ops) : update_ops[j].layer = l})
         = 2 * Cardinality(TrainingBuilds)
    /\ \A i \in 1..Len(built) :
         IF i \in TrainingBuilds
         THEN /\ Cardinality(UpdatesOf(i, l)) = 2
              /\ \A j \in UpdatesOf(i, l) : update_ops[j].op = "AssignSub"
              /\ {update_ops[j].ref : j \in UpdatesOf(i, l)}
                   = {<<l, "moving_mean">>, <<l, "moving_variance">>}
         ELSE UpdatesOf(i, l) = {}

C1_Witness ==
  /\ Cardinality(TrainingBuilds) = 2
  /\ \E i \in 1..Len(built) :
       built[i].net = "generator" /\ ~built[i].training
  /\ Len(update_ops) = 12

\* C2: no moving_mean or moving_variance variable is ever registered as
\* trainable, and the gamma and beta of every constructed layer are.
C2_MovingNeverTrainable ==
  /\ \A l \in Layers :
       /\ <<l, "moving_mean">> \notin Range(trainable)
       /\ <<l, "moving_variance">> \notin Range(trainable)
       /\ LayerConstructed(l) =>
            /\ <<l, "gamma">> \in Range(trainable)
            /\ <<l, "beta">> \in Range(trainable)
  /\ \A i \in 1..Len(variables) :
       /\ variables[i].id[2] \in {"moving_mean", "moving_variance"}
            => variables[i].id \notin Range(trainable)
       /\ variables[i].id[2] \in {"gamma", "beta"}
            => variables[i].id \in Range(trainable)

C2_Witness ==
  /\ {"generator", "discriminator"} \subseteq constructed
  /\ Len(variables) = 22
  /\ \E i \in 1..Len(built) : built[i].training /\ built[i].ok_after
  /\ \E i \in 1..Len(built) : built[i].net = "discriminator"

\* C3: a Build call of Generator or Discriminator, in either mode, leaves the
\* Variable nodes, the trainable registrations and the registered assign ops
\* exactly as they were.
C3_BuildKeepsState ==
  [][built' # built =>
       /\ variables' = variables
       /\ trainable' = trainable
       /\ assign_ops' = assign_ops]_vars

C3_Witness ==
  /\ Len(built) = 3
  /\ Len(variables) = 22 /\ Len(trainable) = 16 /\ Len(assign_ops) = 22
  /\ \E i \in 1..Len(built) : built[i].net = "generator" /\ built[i].training
  /\ \E i \in 1..Len(built) : built[i].net = "generator" /\ ~built[i].training
  /\ \E i \in 1..Len(built) : built[i].net = "discriminator"


\* new = old - (old - batch) * (1 - MOMENTUM), over the integers
MovingAverageStep(old, batch, new) ==
  new[1] * MOMENTUM[2] * old[2] * batch[2]
    = new[2] * (MOMENTUM[2] * old[1] * batch[2]
                - (MOMENTUM[2] - MOMENTUM[1])
                    * (old[1] * batch[2] - batch[1] * old[2]))

\* C4: running the update ops one training Build registered for a layer
\* takes moving_mean and moving_variance from old to
\* old - (old - batch) * (1 - momentum), batch being the batch statistic of
\* that run, for the reference layer and the fused layers alike.
C4_MovingAverageUpdate ==
  (last_run.kind = "run" /\ last_run.training) =>
    /\ last_run.executed = 2
    /\ MovingAverageStep(last_run.before[<<last_run.layer, "moving_mean">>],
                         last_run.batch_mean,
                         last_run.after[<<last_run.layer, "moving_mean">>])
    /\ MovingAverageStep(
         last_run.before[<<last_run.layer, "moving_variance">>],
         last_run.batch_variance,
         last_run.after[<<last_run.layer, "moving_variance">>])

C4_Witness ==
  /\ last_run.kind = "run" /\ last_run.training
  /\ last_run.layer \in FusedLayers
  /\ last_run.before[<<last_run.layer, "moving_mean">>] # RZero
  /\ last_run.before[<<last_run.layer, "moving_mean">>]
       # last_run.batch_mean
  /\ last_run.after[<<last_run.layer, "moving_variance">>]
       # last_run.before[<<last_run.layer, "moving_variance">>]

\* C5: a Build with training = FALSE normalizes with the layer's moving_mean
\* and moving_variance (the fused primitive with is_training = FALSE) and a
\* run of it leaves every variable unchanged; a Build with training = TRUE
\* normalizes with the batch statistics only.
C5_InferenceUsesMovingStatistics ==
  /\ \A i \in 1..Len(norm_nodes) :
       LET n == norm_nodes[i]
       IN  IF n.training
           THEN /\ n.mean \notin LayerVars(n.layer)
                /\ n.variance \notin LayerVars(n.layer)
                /\ n.op = "FusedBatchNorm" => n.is_training
           ELSE /\ n.mean = <<n.layer, "moving_mean">>
                /\ n.variance = <<n.layer, "moving_variance">>
                /\ n.op = "FusedBatchNorm" => ~n.is_training
                /\ UpdatesOf(n.build, n.layer) = {}
  /\ last_run.kind = "run" =>
       IF last_run.training
       THEN /\ last_run.mean_used = last_run.batch_mean
            /\ last_run.variance_used = last_run.batch_variance
       ELSE /\ last_run.after = last_run.before
            /\ last_run.executed = 0
            /\ last_run.mean_used
                 = last_run.before[<<last_run.layer, "moving_mean">>]
            /\ last_run.variance_used
                 = last_run.before[<<last_run.layer, "moving_variance">>]

C5_Witness ==
  /\ last_run.kind = "run" /\ ~last_run.training
  /\ last_run.layer \in FusedLayers
  /\ last_run.mean_used # RZero
  /\ last_run.mean_used # last_run.batch_mean
  /\ val = last_run.before

\* C6: GlorotUniform given a shape of rank other than 2 or 4 fails with
\* UnsupportedShapeError and adds no result node.
C6_UnsupportedRankFails ==
  (glorot.outcome # "none" /\ Len(glorot.shape) \notin {2, 4}) =>
    /\ glorot.error = "UnsupportedShapeError"
    /\ glorot.outcome # "node"

\* C7: for a rate r with 0 <= r < 1, Dropout adds keepProb = 1 - r to the
\* uniform draw and divides the input by it, and the output equals the input
\* only when r = 0; the two Dropout steps of Discriminator::Build have rate
\* 0.3 and keepProb 0.7.
C7_DropoutKeepProb ==
  /\ dropout.outcome = "node" =>
       /\ dropout.add_const = RSub(ROne, dropout.rate_arg)
       /\ dropout.divisor = RSub(ROne, dropout.rate_arg)
       /\ dropout.rate_arg # RZero => dropout.y # dropout.x
  /\ \A i \in 1..Len(built) :
       \A k \in 1..Len(built[i].dropouts) :
         /\ built[i].dropouts[k].rate_arg = <<3, 10>>
         /\ built[i].dropouts[k].add_const = <<7, 10>>
         /\ built[i].dropouts[k].divisor = <<7, 10>>

\* C8: once an op of a Build call has put the scope into an error status the
\* call emits nothing more: no update op is registered by a call whose first
\* op failed or that was entered with the scope in error.
C8_FailFast ==
  \A i \in 1..Len(built) :
    (~built[i].ok_before \/ built[i].stages[1] = ShapeErr) =>
      /\ ~built[i].ok_after
      /\ built[i].registered = 0

\* C9: with batch_size >= 1 and the scope ok, Generator::Build goes through
\* [b,UNITS], [b,7,7,256], [b,7,7,128], [b,14,14,64] to [b,28,28,channels]
\* without error, and Discriminator::Build on an image batch of that shape
\* with the same batch_size flattens to [b, 7*7*128], the first dimension of
\* fc1_weights, and yields [b,1] without error.
C9_BuildShapes ==
  \A i \in 1..Len(built) :
    LET c == built[i]
        b == c.batch_size
    IN  /\ (c.net = "generator" /\ c.ok_before /\ b >= 1) =>
             /\ c.stages = << <<b, 7 * 7 * 256>>, <<b, 7, 7, 256>>,
                              <<b, 7, 7, 128>>, <<b, 14, 14, 64>>,
                              <<b, 28, 28, NUM_CHANNELS>> >>
             /\ c.out = [valid |-> TRUE,
                         shape |-> <<b, 28, 28, NUM_CHANNELS>>]
             /\ c.ok_after
        /\ (c.net = "discriminator" /\ c.ok_before /\ c.input.valid
              /\ c.input.shape = <<b, 28, 28, NUM_CHANNELS>>) =>
             /\ c.stages[3] = <<b, 7 * 7 * 128>>
             /\ Field(variables, "discriminator", "fc1_weights").shape
                  = <<7 * 7 * 128, 1>>
             /\ c.out = [valid |-> TRUE, shape |-> <<b, 1>>]
             /\ c.ok_after

C9_Witness ==
  /\ Len(built) >= 2
  /\ built[1].net = "generator" /\ built[1].training
  /\ built[1].batch_size = 2
  /\ built[2].net = "discriminator" /\ built[2].input = built[1].out
  /\ built[2].batch_size = 2
  /\ built[2].out.shape = <<2, 1>>
  /\ status = "OK"

Max(a, b) == IF a >= b THEN a ELSE b

\* C10: GlorotUniform takes fan_in, fan_out from shape[0], shape[1] at rank
\* 2 and kh*kw*in, kh*kw*out at rank 4, scale = 1 / max(1, (fan_in +
\* fan_out) / 2), limit = sqrt(3 * scale) (to the fixed point grid), and
\* emits uniform * (maxval - minval) + minval with minval = -limit and
\* maxval = limit, which lies in [-limit, limit].
C10_GlorotUniformLimit ==
  (glorot.outcome = "node" /\ Len(glorot.shape) \in {2, 4}) =>
    LET s == glorot.shape
        fi == IF Len(s) = 2 THEN s[1] ELSE s[1] * s[2] * s[3]
        fo == IF Len(s) = 2 THEN s[2] ELSE s[1] * s[2] * s[4]
        x == 3 * glorot.scale[1] * FixedPoint * FixedPoint
    IN  /\ glorot.fan_in = fi
        /\ glorot.fan_out = fo
        /\ glorot.scale[1] * Max(2, fi + fo) = 2 * glorot.scale[2]
        /\ glorot.limit >= 0
        /\ glorot.limit * glorot.limit * glorot.scale[2] <= x
        /\ x < (glorot.limit + 1) * (glorot.limit + 1) * glorot.scale[2]
        /\ glorot.minval = -glorot.limit
        /\ glorot.maxval = glorot.limit
        /\ glorot.value * UniformSteps
             <= glorot.uniform * 2 * glorot.limit
                  - glorot.limit * UniformSteps
        /\ glorot.uniform * 2 * glorot.limit - glorot.limit * UniformSteps
             < (glorot.value + 1) * UniformSteps
        /\ -glorot.limit <= glorot.value
        /\ glorot.value <= glorot.limit

C10_Witness ==
  /\ glorot.outcome = "node"
  /\ Len(glorot.shape) = 4
  /\ glorot.shape[3] # glorot.shape[4]
  /\ glorot.shape[1] * glorot.shape[2] > 1
  /\ glorot.uniform = UniformSteps - 1
  /\ glorot.value > 0

\* the Variable nodes and the registered assign ops of layer l, by position
LayerVariables(l) == {i \in 1..Len(variables) : variables[i].id[1] = l}

AssignsOf(id) == {j \in 1..Len(assign_ops) : assign_ops[j].ref = id}

InitialValue(name) == IF name = "gamma" THEN "OnesLike" ELSE "ZerosLike"

\* C11: every constructed normalization layer, of either variant, has
\* exactly four Variable nodes, one for each of moving_mean, moving_variance,
\* gamma and beta, all of the layer's feature shape, and exactly one emitted
\* initial assign op for each: ZerosLike for moving_mean, moving_variance and
\* beta, OnesLike for gamma; the Variable nodes of the three layers of a
\* Generator are pairwise disjoint.
C11_LayerConstruction ==
  /\ \A l \in Layers :
       LayerConstructed(l) =>
         /\ Cardinality(LayerVariables(l)) = 4
         /\ \A name \in {"moving_mean", "moving_variance", "gamma", "beta"} :
              /\ Cardinality({i \in LayerVariables(l) :
                                variables[i].id = <<l, name>>}) = 1
              /\ \A i \in LayerVariables(l) :
                   variables[i].id = <<l, name>> =>
                     variables[i].shape = LayerShape(l)
              /\ Cardinality(AssignsOf(<<l, name>>)) = 1
              /\ \A j \in AssignsOf(<<l, name>>) :
                   /\ assign_ops[j].value = InitialValue(name)
                   /\ assign_ops[j].emitted
  /\ \A l1, l2 \in GeneratorLayers :
       l1 # l2 => LayerVariables(l1) \cap LayerVariables(l2) = {}
  /\ "generator" \in constructed =>
       Cardinality(UNION {LayerVariables(l) : l \in GeneratorLayers}) = 12

\* the same statement for the layers constructed on a scope whose status is
\* OK when Generator::Generator runs
C11_OnOkScope == status = "OK" => C11_LayerConstruction

====
